---- MODULE Spec2Model ----
(***************************************************************************)
(* Model of ros/src/waypoint_updater/waypoint_updater.py: the              *)
(* WaypointUpdater node.  The four subscriber callbacks store the latest   *)
(* pose, route, stop index and speed; update() runs at 10 Hz and calls     *)
(* get_next_waypoint, resolve_traffic_lights, calculate_final_waypoints    *)
(* and publishes final_waypoints[:LOOKAHEAD_WPS].                          *)
(*                                                                         *)
(* Numbers.  Positions are integers and every route geometry used here has *)
(* integral point-to-point distances, so math.sqrt in dl is exact.  A      *)
(* target speed (twist.twist.linear.x) is a non-negative real r and is     *)
(* held as the exact fraction <<n, d>> = r*r in lowest terms, so that      *)
(* math.sqrt(2*a*dist), the test vel < 1.0 and min(vel, nominal) are       *)
(* computed without rounding.  The deceleration is the fraction <<n, d>>   *)
(* itself.  Angles are held in units of pi/8.                              *)
(*                                                                         *)
(* self.final_waypoints is assigned [] at line 117 before any read of it,  *)
(* so no tick sees the list of an earlier one; the list and the message    *)
(* made from it are kept with the step that built them (last), and the     *)
(* step after it no longer holds them.                                     *)
(***************************************************************************)
EXTENDS Integers, Sequences, FiniteSets, TLC

VARIABLES
    attrs,                  \* names of the instance attributes set so far (hasattr)
    current_pose,           \* self.current_pose
    base_waypoints,         \* self.base_waypoints.waypoints
    traffic_waypoint,       \* self.traffic_waypoint
    current_velocity,       \* self.current_velocity
    state,                  \* self.state: 0 for move, 1 for stop
    breaking_acceleration,  \* self.breaking_acceleration: <<>> is None, else <<n, d>>
    pc,                     \* where the update loop is: "idle", "located", "resolved", "crashed"
    next_wp,                \* update's local next_wp (-1 outside a tick)
    resolved_tw,            \* the traffic_waypoint that resolve_traffic_lights read in
                            \* this tick (-1 outside a tick)
    error,                  \* the exception that ended the loop ("" while it runs)
    last                    \* the step just taken: what it started from, built and published

vars == <<attrs, current_pose, base_waypoints, traffic_waypoint, current_velocity,
          state, breaking_acceleration, pc, next_wp, resolved_tw, error, last>>

----------------------------------------------------------------------------
(* Program constants *)

LOOKAHEAD_WPS == 200

breaking_acceleration_limit == -5

(* Bounds of the model *)

RouteLen == 6      \* waypoints of the straight route

MaxVel == 2        \* vehicle speeds are 0, 10, .., 10 * MaxVel

FarStop == 300     \* a stop index beyond every forward window

----------------------------------------------------------------------------
(* Arithmetic *)

Abs(a) == IF a < 0 THEN -a ELSE a

Max(a, b) == IF a >= b THEN a ELSE b

Min(a, b) == IF a <= b THEN a ELSE b

RECURSIVE Gcd(_, _)
Gcd(a, b) == IF b = 0 THEN a ELSE Gcd(b, a % b)

\* the fraction n/d (d /= 0) made non-negative and in lowest terms: abs(n / d)
AbsFrac(n, d) ==
    LET an == Abs(n)
        ad == Abs(d)
        g  == Gcd(an, ad)
    IN  <<an \div g, ad \div g>>

FracLess(p, q) == p[1] * q[2] < q[1] * p[2]

FracMin(p, q) == IF FracLess(q, p) THEN q ELSE p

Zero == AbsFrac(0, 1)

\* a target speed of v, held as the fraction v*v
SpeedOf(v) == AbsFrac(v * v, 1)

----------------------------------------------------------------------------
(* Inputs the callbacks deliver *)

Position(px, py, pz) == [x |-> px, y |-> py, z |-> pz]

\* a straight route along the x axis, 10 apart, nominal speed 10 everywhere;
\* it is cyclic: index arithmetic wraps from the last waypoint to the first
StraightRoute ==
    [i \in 1..RouteLen |-> [pose |-> Position(10 * (i - 1), 0, 0), twist |-> SpeedOf(10)]]

EmptyRoute == <<>>

Routes == {StraightRoute, EmptyRoute}

\* poses: on the first waypoint facing along the route (yaw 0), on the third
\* facing either way, and on the last waypoint facing back (yaw pi); yaw is
\* in units of pi/4
Poses ==
    { [position |-> Position(0, 0, 0), yaw |-> 0],
      [position |-> Position(20, 0, 0), yaw |-> 0],
      [position |-> Position(20, 0, 0), yaw |-> 4],
      [position |-> Position(10 * (RouteLen - 1), 0, 0), yaw |-> 4] }

\* /traffic_waypoint: -1 (no stop), a route index, or an index far ahead
\* (past the end of the route: distance then indexes out of range, while
\* calculate_final_waypoints wraps it)
StopIndices == {-1, 1, RouteLen - 1, FarStop}

Velocities == {10 * k : k \in 0..MaxVel}

NoPose == [position |-> Position(0, 0, 0), yaw |-> 0]

----------------------------------------------------------------------------
(* Geometry *)

\* dl: math.sqrt of the sum of squares, which is a perfect square here
dl(a, b) ==
    LET dx == a.x - b.x
        dy == a.y - b.y
        dz == a.z - b.z
    IN  CHOOSE r \in 0..(Abs(dx) + Abs(dy) + Abs(dz)) : r * r = dx * dx + dy * dy + dz * dz

\* math.atan2(dy, dx) in units of pi/8: an even value 2m is exactly m*pi/4,
\* an odd value 2m+1 lies strictly between m*pi/4 and (m+1)*pi/4
Atan2Upper(dy, dx) ==
    IF dx > 0
    THEN (IF dy = 0 THEN 0 ELSE IF dy < dx THEN 1 ELSE IF dy = dx THEN 2 ELSE 3)
    ELSE IF dx = 0
    THEN (IF dy = 0 THEN 0 ELSE 4)
    ELSE (IF dy = 0 THEN 8 ELSE IF dy < -dx THEN 7 ELSE IF dy = -dx THEN 6 ELSE 5)

Atan2(dy, dx) == IF dy >= 0 THEN Atan2Upper(dy, dx) ELSE -Atan2Upper(-dy, dx)

\* euler_from_quaternion(...)[-1], the yaw, in units of pi/8
Theta(pose) == 2 * pose.yaw

\* math.pi / 4.0 in units of pi/8
QuarterPi == 2

\* faulty variant: <= in place of <, the last of several nearest waypoints wins
RECURSIVE ClosestScan_LastTie(_, _, _, _, _)
ClosestScan_LastTie(pose, wps, i, min_dist, wp) ==
    IF i >= Len(wps)
    THEN wp
    ELSE LET dist == dl(pose.position, wps[i + 1].pose)
         IN  IF min_dist = -1 \/ dist <= min_dist
             THEN ClosestScan_LastTie(pose, wps, i + 1, dist, i)
             ELSE ClosestScan_LastTie(pose, wps, i + 1, min_dist, wp)

\* the scan of get_closest_waypoint from index i on, min_dist = -1 for inf
RECURSIVE ClosestScan(_, _, _, _, _)
ClosestScan(pose, wps, i, min_dist, wp) ==
    IF i >= Len(wps)
    THEN wp
    ELSE LET dist == dl(pose.position, wps[i + 1].pose)
         IN  IF min_dist = -1 \/ dist < min_dist
             THEN ClosestScan(pose, wps, i + 1, dist, i)
             ELSE ClosestScan(pose, wps, i + 1, min_dist, wp)

get_closest_waypoint(pose, wps) == ClosestScan(pose, wps, 0, -1, 0)

\* get_next_waypoint: [err, val]; indexing an empty route is an IndexError
get_next_waypoint(pose, wps) ==
    LET c == get_closest_waypoint(pose, wps)
    IN  IF c >= Len(wps)
        THEN [err |-> "IndexError", val |-> -1]
        ELSE LET np      == wps[c + 1].pose
                 heading == Atan2(np.y - pose.position.y, np.x - pose.position.x)
                 angle   == Abs(Theta(pose) - heading)
             IN  [err |-> "", val |-> IF angle <= QuarterPi THEN c ELSE c + 1]

\* the loop of distance from i on, with the running wp1 and dist
RECURSIVE DistanceLoop(_, _, _, _, _)
DistanceLoop(wps, wp1, i, wp2, dist) ==
    IF i > wp2
    THEN dist
    ELSE DistanceLoop(wps, i, i + 1, wp2,
                      dist + dl(wps[wp1 + 1].pose, wps[i + 1].pose))

\* distance: [err, val]; the loop reads waypoints[wp1..wp2] without wrapping
distance(wps, wp1, wp2) ==
    IF wp1 <= wp2 /\ wp2 >= Len(wps)
    THEN [err |-> "IndexError", val |-> 0]
    ELSE [err |-> "", val |-> DistanceLoop(wps, wp1, wp1, wp2, 0)]

----------------------------------------------------------------------------
(* resolve_traffic_lights *)

\* faulty variant: the 2 of the denominator is missing
decel_NoTwo(v, x) == AbsFrac(v * v, x)

\* decel = lambda x: abs(self.current_velocity**2 / (2*x))
decel(v, x) == AbsFrac(v * v, 2 * x)

\* faulty variant: >= in place of >
FartherThan_OrEqual(traffic_light_distance, min_distance) ==
    ~FracLess(AbsFrac(traffic_light_distance, 1), min_distance)

\* the test of line 100: traffic_light_distance > min_distance
FartherThan(traffic_light_distance, min_distance) ==
    FracLess(min_distance, AbsFrac(traffic_light_distance, 1))

\* lines 93-106, the branch of the moving state
ResolveMoving(st, acc, tw, has_velocity, v, wps, start_wp) ==
    IF tw /= -1
    THEN LET d == distance(wps, start_wp, tw)
         IN  IF d.err /= ""
             THEN [err |-> d.err, state |-> st, acc |-> acc]
             ELSE IF ~has_velocity
             THEN [err |-> "AttributeError", state |-> st, acc |-> acc]
             ELSE IF FartherThan(d.val, decel(v, breaking_acceleration_limit))
             THEN [err |-> "", state |-> 1, acc |-> decel(v, d.val)]
             ELSE [err |-> "", state |-> 0, acc |-> acc]
    ELSE [err |-> "", state |-> 0, acc |-> acc]

\* faulty variant: the elif of line 109 is missing: the stopping state is never left
resolve_traffic_lights_NoReset(st, acc, tw, has_velocity, v, wps, start_wp) ==
    IF st = 0
    THEN ResolveMoving(st, acc, tw, has_velocity, v, wps, start_wp)
    ELSE [err |-> "", state |-> st, acc |-> acc]

\* faulty variant: the test of line 92 is missing: every tick decides anew
resolve_traffic_lights_Anew(st, acc, tw, has_velocity, v, wps, start_wp) ==
    ResolveMoving(st, acc, tw, has_velocity, v, wps, start_wp)

\* resolve_traffic_lights: the new state and deceleration, or the exception
resolve_traffic_lights(st, acc, tw, has_velocity, v, wps, start_wp) ==
    IF st = 0
    THEN ResolveMoving(st, acc, tw, has_velocity, v, wps, start_wp)
    ELSE IF tw = -1
    THEN [err |-> "", state |-> 0, acc |-> acc]
    ELSE [err |-> "", state |-> st, acc |-> acc]

----------------------------------------------------------------------------
(* calculate_final_waypoints *)

\* a new Waypoint with the pose of base waypoint i % len and the given speed
Copy(wps, i, speed) == [pose |-> wps[(i % Len(wps)) + 1].pose, twist |-> speed]

\* the nominal speed of base waypoint i % len
Nominal(wps, i) == wps[(i % Len(wps)) + 1].twist

\* faulty variant: the twist of the new Waypoint is never assigned
MoveWindow_NoTwist(wps, start_wp) ==
    [k \in 1..LOOKAHEAD_WPS |-> Copy(wps, start_wp + k - 1, Zero)]

\* faulty variant: the window starts at the first waypoint, not at start_wp
MoveWindow_FromFirst(wps, start_wp) ==
    [k \in 1..LOOKAHEAD_WPS |-> Copy(wps, k - 1, Nominal(wps, k - 1))]

\* lines 119-125: the window of the moving state
MoveWindow(wps, start_wp) ==
    [k \in 1..LOOKAHEAD_WPS |->
        Copy(wps, start_wp + k - 1, Nominal(wps, start_wp + k - 1))]

\* lines 129-135: waypoints before the stop index, pose and speed of the route
BeforeStop(wps, start_wp, tw) ==
    [k \in 1..Max(0, tw - start_wp) |->
        Copy(wps, start_wp + k - 1, Nominal(wps, start_wp + k - 1))]

\* faulty variant: without the max with traffic_waypoint + 1
IMax_NoStopEntry(start_wp, tw) == start_wp + LOOKAHEAD_WPS

\* line 141
IMax(start_wp, tw) == Max(start_wp + LOOKAHEAD_WPS, tw + 1)

\* lines 140-147: waypoints from the stop index on, speed 0
FromStop(wps, start_wp, tw) ==
    [k \in 1..Max(0, IMax(start_wp, tw) - tw) |-> Copy(wps, tw + k - 1, Zero)]

\* faulty variant: without the min with the nominal speed
Smoothed_NoMin(wp, lastwp, acc) ==
    LET dist == dl(wp.pose, lastwp.pose)
        vel  == AbsFrac(2 * acc[1] * Max(0, dist - 5), acc[2])
    IN  IF FracLess(vel, SpeedOf(1)) THEN Zero ELSE vel

\* lines 155-161: the speed of a waypoint before the stop, given the stop
\* waypoint last; vel*vel = 2 * acc * max(0, dist - 5)
Smoothed(wp, lastwp, acc) ==
    LET dist == dl(wp.pose, lastwp.pose)
        vel  == AbsFrac(2 * acc[1] * Max(0, dist - 5), acc[2])
        snap == IF FracLess(vel, SpeedOf(1)) THEN Zero ELSE vel
    IN  FracMin(snap, wp.twist)

\* lines 127-161: the window of the stopping state; final_waypoints[target_wp]
\* is an IndexError when nothing was appended from the stop index on
StopWindow(wps, start_wp, tw, acc) ==
    LET before    == BeforeStop(wps, start_wp, tw)
        target_wp == Len(before)
        all       == before \o FromStop(wps, start_wp, tw)
        lastwp    == [all[target_wp + 1] EXCEPT !.twist = Zero]
    IN  IF target_wp >= Len(all)
        THEN [err |-> "IndexError", val |-> all]
        ELSE [err |-> "",
              val |-> [k \in 1..Len(all) |->
                         IF k = target_wp + 1
                         THEN lastwp
                         ELSE IF k <= target_wp
                         THEN [all[k] EXCEPT !.twist = Smoothed(all[k], lastwp, acc)]
                         ELSE all[k]]]

\* calculate_final_waypoints: the list built, or the exception of i % 0
calculate_final_waypoints(st, tw, acc, wps, start_wp) ==
    IF Len(wps) = 0
    THEN [err |-> "ZeroDivisionError", val |-> <<>>]
    ELSE IF st = 0
    THEN [err |-> "", val |-> MoveWindow(wps, start_wp)]
    ELSE StopWindow(wps, start_wp, tw, acc)

\* faulty variant: the whole list is published
Truncate_All(w) == w

\* final_waypoints[:LOOKAHEAD_WPS]
Truncate(w) == SubSeq(w, 1, Min(Len(w), LOOKAHEAD_WPS))

----------------------------------------------------------------------------
(* State machine *)

NoStep ==
    [op |-> "cb", state |-> 0, acc |-> <<>>, start_wp |-> -1, resolved_tw |-> -1,
     final_waypoints |-> <<>>, msg |-> <<>>]

\* the step op, with the state, deceleration, next_wp and resolved stop index
\* it started from
Step(op) ==
    [NoStep EXCEPT !.op = op, !.state = state, !.acc = breaking_acceleration,
                   !.start_wp = next_wp, !.resolved_tw = resolved_tw]

Init ==
    /\ attrs = {}
    /\ current_pose = NoPose
    /\ base_waypoints = <<>>
    /\ traffic_waypoint = -1
    /\ current_velocity = 0
    /\ state = 0
    /\ breaking_acceleration = <<>>
    /\ pc = "idle"
    /\ next_wp = -1
    /\ resolved_tw = -1
    /\ error = ""
    /\ last = [NoStep EXCEPT !.op = "init"]

Running == pc /= "crashed"

pose_cb ==
    /\ Running
    /\ \E msg \in Poses : current_pose' = msg
    /\ attrs' = attrs \cup {"current_pose"}
    /\ last' = NoStep
    /\ UNCHANGED <<base_waypoints, traffic_waypoint, current_velocity, state,
                   breaking_acceleration, pc, next_wp, resolved_tw, error>>

waypoints_cb ==
    /\ Running
    /\ \E waypoints \in Routes : base_waypoints' = waypoints
    /\ attrs' = attrs \cup {"base_waypoints"}
    /\ last' = NoStep
    /\ UNCHANGED <<current_pose, traffic_waypoint, current_velocity, state,
                   breaking_acceleration, pc, next_wp, resolved_tw, error>>

traffic_cb ==
    /\ Running
    /\ \E data \in StopIndices : traffic_waypoint' = data
    /\ last' = NoStep
    /\ UNCHANGED <<attrs, current_pose, base_waypoints, current_velocity, state,
                   breaking_acceleration, pc, next_wp, resolved_tw, error>>

current_velocity_cb ==
    /\ Running
    /\ \E x \in Velocities : current_velocity' = x
    /\ attrs' = attrs \cup {"current_velocity"}
    /\ last' = NoStep
    /\ UNCHANGED <<current_pose, base_waypoints, traffic_waypoint, state,
                   breaking_acceleration, pc, next_wp, resolved_tw, error>>

\* faulty variant: or in place of and
HaveStartMessages_Either(a) == "current_pose" \in a \/ "base_waypoints" \in a

\* line 69: both start messages have arrived
HaveStartMessages(a) == "current_pose" \in a /\ "base_waypoints" \in a

\* the loop ends with an uncaught exception
Crash(op, err) ==
    /\ pc' = "crashed"
    /\ error' = err
    /\ last' = Step(op)

\* update, lines 69-70: a tick before the start messages returns at once
UpdateReturn ==
    /\ pc = "idle"
    /\ ~HaveStartMessages(attrs)
    /\ last' = Step("return")
    /\ UNCHANGED <<attrs, current_pose, base_waypoints, traffic_waypoint, current_velocity,
                   state, breaking_acceleration, pc, next_wp, resolved_tw, error>>

\* update, line 72: next_wp = self.get_next_waypoint(); reading an attribute
\* that was never set is an AttributeError
UpdateLocate ==
    /\ pc = "idle"
    /\ HaveStartMessages(attrs)
    /\ IF ~({"current_pose", "base_waypoints"} \subseteq attrs)
       THEN Crash("locate", "AttributeError") /\ UNCHANGED next_wp
       ELSE LET r == get_next_waypoint(current_pose, base_waypoints)
            IN  IF r.err /= ""
                THEN Crash("locate", r.err) /\ UNCHANGED next_wp
                ELSE /\ next_wp' = r.val
                     /\ pc' = "located"
                     /\ last' = Step("locate")
                     /\ UNCHANGED error
    /\ UNCHANGED <<attrs, current_pose, base_waypoints, traffic_waypoint, current_velocity,
                   state, breaking_acceleration, resolved_tw>>

\* update, line 74: self.resolve_traffic_lights(next_wp)
UpdateResolve ==
    /\ pc = "located"
    /\ LET r == resolve_traffic_lights(state, breaking_acceleration, traffic_waypoint,
                                        "current_velocity" \in attrs, current_velocity,
                                        base_waypoints, next_wp)
       IN  IF r.err /= ""
           THEN Crash("resolve", r.err)
                /\ UNCHANGED <<state, breaking_acceleration, resolved_tw>>
           ELSE /\ state' = r.state
                /\ breaking_acceleration' = r.acc
                /\ resolved_tw' = traffic_waypoint
                /\ pc' = "resolved"
                /\ last' = Step("resolve")
                /\ UNCHANGED error
    /\ UNCHANGED <<attrs, current_pose, base_waypoints, traffic_waypoint, current_velocity,
                   next_wp>>

\* faulty variant: the entries of the list are the Waypoint objects of the
\* route itself, so the speeds written in the stopping state go to the route
UpdatePublish_Aliased ==
    /\ pc = "resolved"
    /\ LET r == calculate_final_waypoints(state, traffic_waypoint, breaking_acceleration,
                                           base_waypoints, next_wp)
       IN  IF r.err /= ""
           THEN Crash("publish", r.err) /\ UNCHANGED <<next_wp, resolved_tw, base_waypoints>>
           ELSE /\ pc' = "idle"
                /\ next_wp' = -1
                /\ resolved_tw' = -1
                /\ last' = [Step("publish") EXCEPT !.final_waypoints = r.val,
                                                    !.msg = Truncate(r.val)]
                /\ base_waypoints' =
                      IF state = 1
                      THEN [i \in 1..Len(base_waypoints) |->
                              [base_waypoints[i] EXCEPT !.twist = Zero]]
                      ELSE base_waypoints
                /\ UNCHANGED error
    /\ UNCHANGED <<attrs, current_pose, traffic_waypoint, current_velocity,
                   state, breaking_acceleration>>

\* update, lines 77-84: calculate_final_waypoints, then publish the first
\* LOOKAHEAD_WPS of them
UpdatePublish ==
    /\ pc = "resolved"
    /\ LET r == calculate_final_waypoints(state, traffic_waypoint, breaking_acceleration,
                                           base_waypoints, next_wp)
       IN  IF r.err /= ""
           THEN Crash("publish", r.err) /\ UNCHANGED <<next_wp, resolved_tw>>
           ELSE /\ pc' = "idle"
                /\ next_wp' = -1
                /\ resolved_tw' = -1
                /\ last' = [Step("publish") EXCEPT !.final_waypoints = r.val,
                                                    !.msg = Truncate(r.val)]
                /\ UNCHANGED error
    /\ UNCHANGED <<attrs, current_pose, base_waypoints, traffic_waypoint, current_velocity,
                   state, breaking_acceleration>>

Next ==
    \/ pose_cb
    \/ waypoints_cb
    \/ traffic_cb
    \/ current_velocity_cb
    \/ UpdateReturn
    \/ UpdateLocate
    \/ UpdateResolve
    \/ UpdatePublish

Spec == Init /\ [][Next]_vars

----------------------------------------------------------------------------
(* Properties.  In the state a step leaves, last names the step and holds   *)
(* what it started from; the fields the step does not assign still hold the *)
(* values it read.                                                          *)

\* the step just taken published a message
Published == last.op = "publish" /\ error = ""

\* the step just taken was resolve_traffic_lights, and it returned
Resolved == last.op = "resolve" /\ error = ""

\* the route waypoint at index i, wrapped
RouteAt(i) == base_waypoints[(i % Len(base_waypoints)) + 1]

\* the stop index read by the publishing step lies in its forward window
StopInWindow ==
    /\ traffic_waypoint >= last.start_wp
    /\ traffic_waypoint < last.start_wp + LOOKAHEAD_WPS

NominalSpeeds ==
    \A k \in 1..Len(last.msg) : last.msg[k].twist = RouteAt(last.start_wp + k - 1).twist

\* C1 as stated: in every tick whose stop signal is an index S in the forward
\* window, the published entry at S has speed 0, and in every tick whose stop
\* signal is none the published speeds are the nominal ones.  The stop signal
\* of the tick is the one both resolve_traffic_lights and
\* calculate_final_waypoints read.
C1_StopsAtEverySignal ==
    (Published /\ last.resolved_tw = traffic_waypoint) =>
        /\ StopInWindow =>
              last.msg[traffic_waypoint - last.start_wp + 1].twist = Zero
        /\ traffic_waypoint = -1 => NominalSpeeds

\* C1 amended: a tick that is stopping (state 1 after resolve_traffic_lights)
\* with the stop index S in its forward window publishes speed 0 at S; a tick
\* in which resolve_traffic_lights read no stop index publishes the nominal
\* speeds.
C1_StopsWhenStopping ==
    Published =>
        /\ (state = 1 /\ StopInWindow) =>
              last.msg[traffic_waypoint - last.start_wp + 1].twist = Zero
        /\ last.resolved_tw = -1 => NominalSpeeds

\* C1 witness: a stopping tick published speed 0 at a stop index ahead of the
\* tracked index, below a positive speed at the tracked index
C1_Witness ==
    /\ Published
    /\ state = 1
    /\ StopInWindow
    /\ traffic_waypoint > last.start_wp
    /\ last.resolved_tw = traffic_waypoint
    /\ last.msg[traffic_waypoint - last.start_wp + 1].twist = Zero
    /\ last.msg[1].twist /= Zero

\* the arc distance resolve_traffic_lights computed in the step just taken
ArcDistance == distance(base_waypoints, next_wp, traffic_waypoint).val

\* C2: after resolve_traffic_lights has read no stop index (-1) the state is
\* 0 (moving), whatever it was, and it is still 0 when the tick publishes.
C2_NoSignalMoves ==
    /\ (Resolved /\ traffic_waypoint = -1) => state = 0
    /\ (Published /\ last.resolved_tw = -1) => state = 0

\* C2 witness: a tick that started in the stopping state, with a deceleration
\* set, read no stop index and is back in the moving state
C2_Witness ==
    /\ Resolved
    /\ last.state = 1
    /\ last.acc /= <<>>
    /\ traffic_waypoint = -1
    /\ state = 0

\* C3: a tick that starts moving with a stop index is stopping after
\* resolve_traffic_lights exactly when D > M, where D is the arc distance and
\* M = speed^2 / (2 * 5); with D <= M it stays moving.
C3_BrakesIffFarther ==
    (Resolved /\ last.state = 0 /\ traffic_waypoint /= -1) =>
        /\ state \in {0, 1}
        /\ state = 1 <=> 2 * 5 * ArcDistance > current_velocity * current_velocity

\* C3 witness: D = M exactly (speed 10, D = 10), and the tick stays moving
C3_Witness ==
    /\ Resolved
    /\ last.state = 0
    /\ traffic_waypoint /= -1
    /\ current_velocity > 0
    /\ 2 * 5 * ArcDistance = current_velocity * current_velocity
    /\ state = 0

\* C4: on every change from moving to stopping the deceleration stored is
\* speed^2 / (2 * D); speed 10 and D = 50 give 1.
C4_DecelerationValue ==
    (Resolved /\ last.state = 0 /\ state = 1) =>
        /\ Len(breaking_acceleration) = 2
        /\ breaking_acceleration[2] > 0
        /\ breaking_acceleration[1] * 2 * ArcDistance
              = current_velocity * current_velocity * breaking_acceleration[2]
        /\ (current_velocity = 10 /\ ArcDistance = 50) => breaking_acceleration = <<1, 1>>

\* C4 witness: the change from moving to stopping at speed 10 and D = 50
C4_Witness ==
    /\ Resolved
    /\ last.state = 0
    /\ state = 1
    /\ current_velocity = 10
    /\ ArcDistance = 50
    /\ breaking_acceleration = <<1, 1>>

\* C5: a tick that starts stopping and reads a stop index stays stopping and
\* keeps the deceleration it started with.
C5_StoppingKept ==
    (Resolved /\ last.state = 1 /\ traffic_waypoint /= -1) =>
        /\ state = 1
        /\ breaking_acceleration = last.acc

\* C5 witness: the deceleration kept differs from speed^2 / (2 * D) of the
\* speed, tracked index and stop index read now, and D <= M now
C5_Witness ==
    /\ Resolved
    /\ last.state = 1
    /\ traffic_waypoint /= -1
    /\ traffic_waypoint < Len(base_waypoints)
    /\ state = 1
    /\ breaking_acceleration = last.acc
    /\ breaking_acceleration[1] * 2 * ArcDistance
          /= current_velocity * current_velocity * breaking_acceleration[2]
    /\ 2 * 5 * ArcDistance <= current_velocity * current_velocity

\* the index of the route waypoint that entry k of the list built by the step
\* just taken was copied from
SourceIndex(k) ==
    IF state = 0 \/ k <= traffic_waypoint - last.start_wp
    THEN last.start_wp + k - 1
    ELSE traffic_waypoint + k - 1 - Max(0, traffic_waypoint - last.start_wp)

\* C6: every message published has at most 200 waypoints.
C6_AtMostLookahead == Published => Len(last.msg) <= 200

\* C6 witness: a stopping tick whose stop index is more than 200 ahead of the
\* tracked index built more than 200 waypoints and published 200
C6_Witness ==
    /\ Published
    /\ state = 1
    /\ traffic_waypoint > last.start_wp + 200
    /\ Len(last.final_waypoints) > 200
    /\ Len(last.msg) = 200

\* C7: a tick that is moving after resolve_traffic_lights publishes exactly
\* 200 waypoints, the k-th (k = 0..199) with the pose and the nominal speed
\* of route waypoint (tracked index + k) mod N.
C7_MovingWindow ==
    (Published /\ state = 0) =>
        /\ Len(last.msg) = 200
        /\ \A k \in 0..199 :
              /\ last.msg[k + 1].pose = RouteAt(last.start_wp + k).pose
              /\ last.msg[k + 1].twist = RouteAt(last.start_wp + k).twist

\* C7 witness: a moving tick over a route shorter than 200 that does not
\* start at the first waypoint, so the window wraps and repeats
C7_Witness ==
    /\ Published
    /\ state = 0
    /\ Len(base_waypoints) < 200
    /\ last.start_wp % Len(base_waypoints) /= 0
    /\ last.msg[1].pose /= base_waypoints[1].pose
    /\ last.msg[1 + Len(base_waypoints)] = last.msg[1]

\* C8: the list a stopping tick builds with stop index S >= tracked index has
\* an entry for S, at position S - tracked index, and speed 0 there and at
\* every later entry; reading the stop entry (line 150) never fails.
C8_StopZoneZero ==
    /\ (Published /\ state = 1 /\ traffic_waypoint >= last.start_wp) =>
          /\ Len(last.final_waypoints) >= traffic_waypoint - last.start_wp + 1
          /\ \A k \in (traffic_waypoint - last.start_wp + 1)..Len(last.final_waypoints) :
                last.final_waypoints[k].twist = Zero
          /\ last.final_waypoints[traffic_waypoint - last.start_wp + 1].pose
                = RouteAt(traffic_waypoint).pose
    /\ (last.op = "publish" /\ state = 1 /\ Len(base_waypoints) > 0) => error = ""

\* C8 witness: the stop index is beyond the forward window, so the stop entry
\* is the only entry of the stop zone and the last of the list
C8_Witness ==
    /\ Published
    /\ state = 1
    /\ traffic_waypoint >= last.start_wp + 200
    /\ Len(last.final_waypoints) = traffic_waypoint - last.start_wp + 1
    /\ last.final_waypoints[Len(last.final_waypoints)].twist = Zero
    /\ last.final_waypoints[Len(last.final_waypoints) - 1].twist /= Zero

\* C9: every entry of every list built has a speed of at least 0 and at most
\* the nominal speed of the route waypoint it was copied from.
C9_SpeedRange ==
    Published =>
        \A k \in 1..Len(last.final_waypoints) :
            LET speed == last.final_waypoints[k].twist
            IN  /\ speed[1] >= 0
                /\ speed[2] > 0
                /\ ~FracLess(RouteAt(SourceIndex(k)).twist, speed)
                /\ last.final_waypoints[k].pose = RouteAt(SourceIndex(k)).pose

\* C9 witness: a stopping tick in which the braking curve lies above the
\* nominal speed at the first entry, which keeps the nominal speed, and
\* below it at a later entry before the stop
C9_Witness ==
    /\ Published
    /\ state = 1
    /\ traffic_waypoint > last.start_wp + 1
    /\ traffic_waypoint < Len(base_waypoints)
    /\ FracLess(RouteAt(last.start_wp).twist,
                AbsFrac(2 * breaking_acceleration[1]
                          * (dl(RouteAt(last.start_wp).pose, RouteAt(traffic_waypoint).pose) - 5),
                        breaking_acceleration[2]))
    /\ last.final_waypoints[1].twist = RouteAt(last.start_wp).twist
    /\ \E k \in 2..(traffic_waypoint - last.start_wp) :
          /\ last.final_waypoints[k].twist /= Zero
          /\ FracLess(last.final_waypoints[k].twist, RouteAt(last.start_wp + k - 1).twist)

\* C10: until both a pose and a route have arrived, no tick has done
\* anything: nothing is published, no exception ends the loop, and the state
\* and the deceleration are the initial ones; a tick run then returns at once.
C10_IdleBeforeStart ==
    ~({"current_pose", "base_waypoints"} \subseteq attrs) =>
        /\ state = 0
        /\ breaking_acceleration = <<>>
        /\ error = ""
        /\ pc = "idle"
        /\ last.op \in {"init", "cb", "return"}
        /\ last.msg = <<>>
        /\ last.final_waypoints = <<>>

\* C10 witness: a tick returned at once although a stop index, a speed and
\* one of the two start messages had arrived
C10_Witness ==
    /\ last.op = "return"
    /\ traffic_waypoint /= -1
    /\ "current_velocity" \in attrs
    /\ attrs \cap {"current_pose", "base_waypoints"} /= {}
    /\ state = 0
    /\ breaking_acceleration = <<>>

\* C11 as stated: while no speed has ever arrived a tick does no work and is
\* no error; resolve_traffic_lights never reads a speed that was never set.
C11_NoUnsetSpeedRead ==
    ~("current_velocity" \in attrs) => error /= "AttributeError"

\* C12 as stated: with an empty route a tick neither indexes the route nor
\* takes an index modulo 0; the loop does not end with an unhandled indexing
\* or division failure.
C12_EmptyRouteGuarded ==
    ("base_waypoints" \in attrs /\ Len(base_waypoints) = 0) =>
        error \notin {"IndexError", "ZeroDivisionError"}

\* C13 as stated: once a route and a pose have arrived every tick publishes a
\* window; no tick after that point ends without publishing.
C13_EveryTickPublishes ==
    ({"current_pose", "base_waypoints"} \subseteq attrs) =>
        /\ pc /= "crashed"
        /\ last.op /= "return"

\* C14 as stated: the stop index calculate_final_waypoints uses is the one
\* resolve_traffic_lights used in the same tick, so the list of the stopping
\* state is never built with stop index -1.
C14_TickInputsFixed ==
    (Published /\ state = 1) =>
        /\ traffic_waypoint = last.resolved_tw
        /\ traffic_waypoint /= -1

\* the sum of the distances between consecutive route waypoints along the
\* cyclic route from index i to index j
RECURSIVE CyclicArc(_, _)
CyclicArc(i, j) ==
    LET n == Len(base_waypoints)
    IN  IF i % n = j % n
        THEN 0
        ELSE dl(RouteAt(i).pose, RouteAt(i + 1).pose) + CyclicArc(i + 1, j)

\* C15 as stated: the arc distance resolve_traffic_lights uses is the sum of
\* the distances between consecutive waypoints along the cyclic route from
\* the tracked index to the stop index, also when the stop index is smaller
\* than the tracked index and when the tracked index equals the route length.
C15_ArcAlongCyclicRoute ==
    (Resolved /\ last.state = 0 /\ traffic_waypoint /= -1) =>
        ArcDistance = CyclicArc(next_wp, traffic_waypoint)

\* C16 as stated: every published window is the forward slice of the route
\* from the tracked index, in both states, also when the stop index is behind
\* the tracked index or outside the forward window.  Ticks in which the stop
\* index changed between resolve_traffic_lights and the build are left out.
C16_ForwardSlice ==
    (Published /\ traffic_waypoint = last.resolved_tw) =>
        \A k \in 0..(Len(last.msg) - 1) :
            last.msg[k + 1].pose = RouteAt(last.start_wp + k).pose


\* C17 as stated: the initial state is the moving state, and whenever the state
\* is the stopping state the stored deceleration is set and strictly positive,
\* whatever the speed was at the transition
C17_PositiveDeceleration ==
    /\ last.op = "init" => state = 0
    /\ state = 1 => /\ breaking_acceleration /= <<>>
                    /\ breaking_acceleration[1] > 0


----------------------------------------------------------------------------
(* get_next_waypoint alone, over routes along a line and poses on that line *)

\* a step of 5 along the line of a route: the x axis either way, the y axis,
\* and the 3-4-5 diagonals up and down
Directions == {<<5, 0>>, <<-5, 0>>, <<0, 5>>, <<3, 4>>, <<-4, -3>>}

\* RouteLen waypoints 10 apart along the direction u, from the origin
LineRoute(u) ==
    [i \in 1..RouteLen |->
        [pose |-> Position(2 * (i - 1) * u[1], 2 * (i - 1) * u[2], 0),
         twist |-> SpeedOf(10)]]

\* multiples of 5 along the line: on a waypoint, half way between two
\* waypoints (two nearest waypoints), and past the last waypoint
Offsets == {0, 1, 3, 4, 5, 2 * RouteLen - 2, 2 * RouteLen}

\* yaw in units of pi/4, from -pi to pi
Yaws == -4..4

InitLocate ==
    /\ attrs = {"current_pose", "base_waypoints"}
    /\ \E u \in Directions, t \in Offsets, yaw \in Yaws :
          /\ base_waypoints = LineRoute(u)
          /\ current_pose = [position |-> Position(t * u[1], t * u[2], 0), yaw |-> yaw]
    /\ traffic_waypoint = -1
    /\ current_velocity = 0
    /\ state = 0
    /\ breaking_acceleration = <<>>
    /\ pc = "idle"
    /\ next_wp = -1
    /\ resolved_tw = -1
    /\ error = ""
    /\ last = [NoStep EXCEPT !.op = "init"]

NextLocate == UpdateLocate

SpecLocate == InitLocate /\ [][NextLocate]_vars

\* get_next_waypoint has just returned
Located == last.op = "locate" /\ error = ""

\* the distance from the vehicle to route waypoint i
VehicleDistance(i) == dl(current_pose.position, RouteAt(i).pose)

\* the lowest index among the route waypoints nearest to the vehicle
LowestNearest ==
    CHOOSE i \in 0..(Len(base_waypoints) - 1) :
        /\ \A j \in 0..(Len(base_waypoints) - 1) : VehicleDistance(i) <= VehicleDistance(j)
        /\ \A j \in 0..(i - 1) : VehicleDistance(j) > VehicleDistance(i)

\* the difference between the yaw and the bearing of waypoint i is above pi/4
TurnedAway(i) ==
    LET np == RouteAt(i).pose
    IN  Abs(Theta(current_pose)
            - Atan2(np.y - current_pose.position.y, np.x - current_pose.position.x))
          > QuarterPi

\* C18: on a non-empty route get_next_waypoint returns c or c + 1, c the lowest
\* index of a nearest waypoint; it returns c + 1 exactly when the yaw and the
\* bearing of waypoint c differ by more than pi/4 (the absolute value of yaw
\* minus bearing, each within -pi..pi); modulo the route length the result is
\* an index of the route
C18_NextWaypoint ==
    Located =>
        /\ next_wp \in {LowestNearest, LowestNearest + 1}
        /\ next_wp = LowestNearest + 1 <=> TurnedAway(LowestNearest)
        /\ next_wp % Len(base_waypoints) \in 0..(Len(base_waypoints) - 1)

\* two waypoints are nearest, the lower one lies behind the vehicle: c + 1
C18_Witness ==
    /\ Located
    /\ \E j \in 0..(Len(base_waypoints) - 1) :
          j /= LowestNearest /\ VehicleDistance(j) = VehicleDistance(LowestNearest)
    /\ next_wp = LowestNearest + 1


----------------------------------------------------------------------------
(* What a tick leaves alone *)

\* the steps of update
TickSteps == {"return", "locate", "resolve", "publish"}

\* the window built from the state, the deceleration and the stored messages
WindowOf(st, acc, start_wp) ==
    Truncate(calculate_final_waypoints(st, traffic_waypoint, acc, base_waypoints,
                                       start_wp).val)

\* C19: a step of a tick leaves the stored route (poses and nominal speeds),
\* pose, velocity and stop index as they were; only resolve_traffic_lights
\* changes the state and the deceleration; the window published is built anew
\* from the stored messages, the state and the deceleration alone
C19_TickFrame ==
    [][last'.op \in TickSteps =>
         /\ UNCHANGED <<base_waypoints, current_pose, current_velocity,
                        traffic_waypoint, attrs>>
         /\ last'.op /= "resolve" => UNCHANGED <<state, breaking_acceleration>>
         /\ (last'.op = "publish" /\ error' = "") =>
               last'.msg = WindowOf(state, breaking_acceleration, next_wp)]_vars

\* a stopping window with speeds forced to 0 and speeds lowered was published,
\* and every waypoint of the route still has its nominal speed 10
C19_Witness ==
    /\ Published
    /\ state = 1
    /\ \E k \in 1..Len(last.msg) : last.msg[k].twist = Zero
    /\ \E k \in 1..Len(last.msg) : last.msg[k].twist \notin {Zero, SpeedOf(10)}
    /\ \A i \in 1..Len(base_waypoints) : base_waypoints[i].twist = SpeedOf(10)


----------------------------------------------------------------------------
(* Ticks over a route that bends: the stopping window *)

\* a closed route round a right triangle with sides 30, 40 and 50, nominal
\* speed 10 everywhere; the second waypoint is farther from the third, in a
\* straight line, than the first one is
TriangleRoute ==
    << [pose |-> Position(30, 0, 0), twist |-> SpeedOf(10)],
       [pose |-> Position(0, 40, 0), twist |-> SpeedOf(10)],
       [pose |-> Position(0, 0, 0),  twist |-> SpeedOf(10)] >>

WindowRoutes == {StraightRoute, TriangleRoute}

\* all messages have arrived: a route, a pose on one of its waypoints facing
\* along the x axis either way, a stop index of the route and a speed
InitWindow ==
    /\ attrs = {"current_pose", "base_waypoints", "current_velocity"}
    /\ base_waypoints \in WindowRoutes
    /\ \E i \in 1..Len(base_waypoints), yaw \in {0, 4} :
          current_pose = [position |-> base_waypoints[i].pose, yaw |-> yaw]
    /\ traffic_waypoint \in 0..(Len(base_waypoints) - 1)
    /\ current_velocity \in Velocities
    /\ state = 0
    /\ breaking_acceleration = <<>>
    /\ pc = "idle"
    /\ next_wp = -1
    /\ resolved_tw = -1
    /\ error = ""
    /\ last = [NoStep EXCEPT !.op = "init"]

NextWindow ==
    \/ UpdateLocate
    \/ UpdateResolve
    \/ UpdatePublish

SpecWindow == InitWindow /\ [][NextWindow]_vars

\* the position in the published window (from 1) of the stop entry
StopEntry == traffic_waypoint - last.start_wp + 1

\* C20 as stated: in a stopping window over a route of equal nominal speeds,
\* whatever its shape, no entry before the stop entry has a lower speed than
\* the entry after it, and every entry before the stop entry within 5 of it in
\* a straight line has speed 0
C20_NeverSpeedsUp ==
    (Published /\ state = 1 /\ StopEntry \in 1..Len(last.msg)) =>
        /\ \A k \in 1..(StopEntry - 1) :
              ~FracLess(last.msg[k].twist, last.msg[k + 1].twist)
        /\ \A k \in 1..(StopEntry - 1) :
              dl(last.msg[k].pose, last.msg[StopEntry].pose) <= 5
                 => last.msg[k].twist = Zero

====
